---- MODULE Spec2Model ----
(***************************************************************************)
(* Process supervision layer of openperouter-mcp (src/main.go): the        *)
(* sequential dispatch loop, start_traffic_capture with its detached       *)
(* watcher goroutine, stop_traffic_capture with its waiter goroutine, the  *)
(* mutex-guarded activeCalls registry, and the supervised OS processes.    *)
(*                                                                         *)
(* Tasks: the main goroutine (pc), one watcher per spawned command (wpc),  *)
(* one waiter per stop that found captures (wtpc).  The supervised         *)
(* commands are black boxes: while running they may write lines and may    *)
(* exit at any time; SIGTERM may be honoured or ignored; SIGKILL is not    *)
(* ignorable.  Timers are abstract: an armed timer may elapse at any step. *)
(* A command is one process: its pipes reach end of file when it exits.    *)
(* The stdout pipe is transparent: a burst of lines the command writes is  *)
(* handed to the watcher's scanner in the same step.  Locals of a          *)
(* goroutine are cleared once it no longer reads them, a channel whose     *)
(* only receiver has returned is garbage, and a signal is consumed by the  *)
(* death of the process.                                                   *)
(* Scope: the lifetime of the server process.                              *)
(***************************************************************************)
EXTENDS Integers, Sequences, FiniteSets, TLC

\* ------------------------------------------------------------------ bounds
MaxCalls == 2        \* start_traffic_capture requests that reach the spawn
MaxStops == 1        \* stop_traffic_capture requests
MaxWrites == 1       \* write bursts of one supervised command
MaxInput == 3        \* lines the dispatch loop reads from standard input

\* ------------------------------------------------------- program constants
maxLines == 20
ParseErrorCode == -32700
InvalidParamsCode == -32602
MethodNotFoundCode == -32601
UnknownToolCode == -32602

H == 1..MaxCalls     \* command handles (*exec.Cmd), in spawn order
K == 1..MaxStops     \* stop invocations, in request order

\* ----------------------------------------------------------------- values
\* request identifiers (JSONRPCRequest.ID is `any`): numbers and strings
Ids == { <<"num", 1>>, <<"str", "1">>, <<"str", "2">> }
StopIds == { <<"str", "2">> }

NumStr == (1 :> "1") @@ (2 :> "2")

\* requestID := fmt.Sprintf("%v", id)
FmtV(id) ==
    IF id[1] = "num" THEN NumStr[id[2]] ELSE id[2]

Keys == { FmtV(id) : id \in Ids }

NoId == <<"none", "">>

\* the texts of the tool results
TimeoutText == "Capture process started (waiting for initial output timed out after 5s)"
SentinelText == "Capture started (no initial output yet)"
StartedFmt == "Traffic capture started successfully and is running in the background (Request ID: %s).\n\nInitial output:\n%s\n\nThe capture will continue running. Use the stop_traffic_capture tool to stop all captures and retrieve the files."
CancelledText == "Traffic capture was cancelled before starting."
NoActiveText == "No active traffic captures found."
StoppedFmt == "Successfully stopped %d traffic capture(s).\n\nThe cleanup process has:\n- Terminated all tshark processes in containers\n- Copied pcap files from containers to the host\n\nCheck the output directory for the capture files."
ErrStdoutFmt == "Error creating stdout pipe: %v"
ErrStderrFmt == "Error creating stderr pipe: %v"
ErrStartFmt == "Error starting capture-traffic.sh: %v"

\* the first line command h prints, if it prints: an ordinary line for one
\* command, a line that reads like the server's own timeout text for the next
NoLine == "<none>"
FirstLine(h) ==
    IF h % 2 = 1 THEN "ready" ELSE TimeoutText

\* CallToolResult: one text content item (a format and its arguments) + IsError
Result(fmt, a1, a2, n, isErr) ==
    [fmt |-> fmt, reqID |-> a1, out |-> a2, count |-> n, IsError |-> isErr]

NoResult == Result("", "", "", 0, FALSE)

StartedResult(requestID, initialOutput) ==
    Result(StartedFmt, requestID, initialOutput, 0, FALSE)

CancelledResult == Result(CancelledText, "", "", 0, FALSE)

StartErrorResult(fmt) == Result(fmt, "", "", 0, TRUE)

\* faulty variant of NoActiveResult: the empty stop is reported as an error
NoActiveAsError == Result(NoActiveText, "", "", 0, TRUE)

NoActiveResult == Result(NoActiveText, "", "", 0, FALSE)

StoppedResult(stoppedCount) == Result(StoppedFmt, "", "", stoppedCount, FALSE)

Min(a, b) == IF a < b THEN a ELSE b

Range(s) == { s[i] : i \in 1..Len(s) }

\* every order in which a map iteration may visit the set S
Orders(S) ==
    { s \in [1..Cardinality(S) -> S] : \A i, j \in 1..Cardinality(S) : i # j => s[i] # s[j] }

\* ------------------------------------------------------ protocol envelope
\* the id member as written on a line: the ids above, a number that is no
\* float64 (2^53 + 1), or no id member at all
BigId == <<"big", "9007199254740993">>

RawIds == Ids \cup {BigId, NoId}

\* json.Unmarshal into `ID any`: a JSON number becomes the nearest float64,
\* which json.Marshal prints back; strings and small integers are kept
ParseId(raw) ==
    IF raw = BigId THEN <<"big", "9007199254740992">> ELSE raw

\* a line that json.Unmarshal accepts as a JSONRPCRequest: its method, whether
\* its params decode into the parameter struct of that method, and for
\* tools/call the tool name
Line(method, params, name) ==
    [parses |-> TRUE, method |-> method, params |-> params, name |-> name]

NoInput == [parses |-> FALSE, method |-> "", params |-> "", name |-> "<no line>"]

Unparsable == [parses |-> FALSE, method |-> "", params |-> "", name |-> "<not a request>"]

KnownTools == {"extract_leaf_configs", "start_traffic_capture", "stop_traffic_capture"}

CallLine(name) == Line("tools/call", "ok", name)

\* the requests handleRequest answers without running a tool
QuickLines ==
    { Line("initialize", "ok", ""), Line("initialize", "bad", ""),
      Line("tools/list", "ok", ""), Line("tools/list", "bad", ""),
      Line("notifications/initialized", "ok", ""),
      Line("tools/call", "bad", ""), CallLine("no_such_tool") }

\* RPCError: code and message; NoError when the response has no error member
RPCError(code, message) == <<code, message>>

NoError == <<>>

\* faulty variant of HandleRequestError: undecodable params are reported
\* with the parse-error code
HandleRequestErrorParamsAsParse(line) ==
    CASE line.method = "initialize" ->
            IF line.params = "bad" THEN RPCError(ParseErrorCode, "Invalid params") ELSE NoError
      [] line.method = "tools/list" -> NoError
      [] line.method = "tools/call" ->
            IF line.params = "bad" THEN RPCError(ParseErrorCode, "Invalid params")
            ELSE IF line.name \in KnownTools THEN NoError
            ELSE RPCError(UnknownToolCode, "Unknown tool: ")
      [] OTHER -> RPCError(MethodNotFoundCode, "Method not found")

\* the Error member handleRequest and handleToolCall return for a request
HandleRequestError(line) ==
    CASE line.method = "initialize" ->
            IF line.params = "bad" THEN RPCError(InvalidParamsCode, "Invalid params") ELSE NoError
      [] line.method = "tools/list" -> NoError
      [] line.method = "tools/call" ->
            IF line.params = "bad" THEN RPCError(InvalidParamsCode, "Invalid params")
            ELSE IF line.name \in KnownTools THEN NoError
            ELSE RPCError(UnknownToolCode, "Unknown tool: ")
      [] OTHER -> RPCError(MethodNotFoundCode, "Method not found")

InitializeResult == Result("InitializeResult", "", "", 0, FALSE)

ToolsListResult == Result("ToolsListResult", "", "", 0, FALSE)

\* the Result member handleInitialize and handleToolsList return
HandleRequestResult(line) ==
    IF HandleRequestError(line) # NoError THEN NoResult
    ELSE IF line.method = "initialize" THEN InitializeResult
    ELSE ToolsListResult

\* extractLeafConfigs: the result for an outcome of cmd.CombinedOutput()
ExtractErrFmt == "Error executing extract-leaf-configs.sh: %v\nOutput: %s"

\* faulty variant of ExtractResult: the error flag is left unset when the
\* script could not be run
ExtractResultUnflagged(outcome) ==
    IF outcome = "exit 0" THEN Result("%s", "", "output", 0, FALSE)
    ELSE Result(ExtractErrFmt, "", "output", 0, outcome = "exit 1")

ExtractResult(outcome) ==
    IF outcome = "exit 0" THEN Result("%s", "", "output", 0, FALSE)
    ELSE Result(ExtractErrFmt, "", "output", 0, TRUE)

\* JSONRPCResponse as writeResponse marshals it: id, result and error are
\* omitempty
Response(id, res, err) ==
    [id |-> id, hasId |-> id # NoId,
     result |-> res, hasResult |-> err = NoError,
     error |-> err, hasError |-> err # NoError]

VARIABLES
    pc,           \* position of the main goroutine (dispatch loop + handler)
    req,          \* the request being handled: [tool, id]
    cur,          \* handle of the command of the start being handled (0: none)
    result,       \* the CallToolResult of the handler that just returned
    branch,       \* the select case that handler took
    activeCalls,  \* s.activeCalls: requestID -> handle of ActiveCall.Cmd
    mu,           \* s.mu: FreeMu, or the task holding it
    nspawn,       \* commands created so far
    proc,         \* OS process of handle h: "unstarted" | "running" | "blocked" | "exited"
    sig,          \* signal pending for the running process: "none" | "kill"
    nwrites,      \* write bursts of command h the first loop of its watcher has read
    inWindow,     \* the command of the start being handled wrote before the 5 s deadline elapsed
    reaped,       \* a cmd.Wait() on h collected the exit status
    waits,        \* tasks whose cmd.Wait() on h has returned
    reqKey,       \* requestID captured by the watcher closure of h
    wpc,          \* position of watcher goroutine h
    lineCount,    \* watcher h: lineCount
    lines0,       \* watcher h: lines[0]
    outputChan,   \* outputChan of start h (buffered, capacity 1)
    ctxDone,      \* ctx of start h is cancelled
    tmr,          \* time.After(5s) of the start being handled: "unset" | "armed" | "fired"
    nstop,        \* stops requested so far
    snap,         \* captureProcesses of stop k
    si,           \* loop index of the main goroutine inside stop
    stoppedCount, \* stoppedCount of the stop being handled
    wtpc,         \* position of the waiter goroutine of stop k
    wi,           \* waiter k: index into captureProcesses
    done,         \* done channel of stop k (buffered, capacity 1)
    tmr15,        \* time.After(15s) of the stop being handled
    sigTried,     \* stop being handled: handles on which Signal(SIGTERM) was called
    sigOk,        \* stop being handled: handles on which Signal(SIGTERM) returned nil
    killTried,    \* stop being handled: handles on which Kill() was called
    input,        \* the line being handled, as main and handleRequest decode it
    rawId,        \* the id member as written on that line
    rpcErr,       \* Error.Code of the response being returned (NoError: no error member)
    nlines,       \* lines the scanner has taken from standard input
    nblank,       \* those of them that were empty
    nresp,        \* responses written to standard output
    server        \* the server process: "running" | "exit0" | "exit1"

ioVars == <<input, rawId, rpcErr, nlines, nblank, nresp, server>>
mainVars == <<pc, req, cur, result, branch, ioVars>>
regVars == <<activeCalls, mu>>
procVars == <<nspawn, proc, sig, nwrites, inWindow, reaped, waits>>
watchVars == <<reqKey, wpc, lineCount, lines0, outputChan, ctxDone, tmr>>
stopVars == <<nstop, snap, si, stoppedCount, wtpc, wi, done, tmr15, sigTried, sigOk, killTried>>
vars == <<mainVars, regVars, procVars, watchVars, stopVars>>

\* the tasks that take s.mu
FreeMu == <<"free", 0>>
MainTask == <<"main", 0>>
Watcher(h) == <<"watcher", h>>
Waiter(k) == <<"waiter", k>>

NoRequest == [tool |-> "", id |-> NoId]

\* NewMCPServer + main before the first line is read
Init ==
    /\ pc = "idle"
    /\ req = NoRequest
    /\ cur = 0
    /\ result = NoResult
    /\ branch = "none"
    /\ activeCalls = <<>>
    /\ mu = FreeMu
    /\ nspawn = 0
    /\ proc = [h \in H |-> "unstarted"]
    /\ sig = [h \in H |-> "none"]
    /\ nwrites = [h \in H |-> 0]
    /\ inWindow = FALSE
    /\ reaped = [h \in H |-> FALSE]
    /\ waits = [h \in H |-> {}]
    /\ reqKey = [h \in H |-> ""]
    /\ wpc = [h \in H |-> "none"]
    /\ lineCount = [h \in H |-> 0]
    /\ lines0 = [h \in H |-> NoLine]
    /\ outputChan = [h \in H |-> <<>>]
    /\ ctxDone = [h \in H |-> FALSE]
    /\ tmr = "unset"
    /\ nstop = 0
    /\ snap = [k \in K |-> <<>>]
    /\ si = 0
    /\ stoppedCount = 0
    /\ wtpc = [k \in K |-> "none"]
    /\ wi = [k \in K |-> 0]
    /\ done = [k \in K |-> <<>>]
    /\ tmr15 = "unset"
    /\ sigTried = {}
    /\ sigOk = {}
    /\ killTried = {}
    /\ input = NoInput
    /\ rawId = NoId
    /\ rpcErr = NoError
    /\ nlines = 0
    /\ nblank = 0
    /\ nresp = 0
    /\ server = "running"

\* ------------------------------------------------------------ dispatch loop
\* main: scanner.Scan() delivers the next tools/call line; handleToolCall
\* routes it by tool name
ReadRequest ==
    /\ pc = "idle"
    /\ nlines < MaxInput
    /\ \/ /\ nspawn < MaxCalls
          /\ \E id \in Ids :
                /\ req' = [tool |-> "start_traffic_capture", id |-> ParseId(id)]
                /\ rawId' = id
          /\ pc' = "st_spawn"
          /\ UNCHANGED nstop
       \/ /\ nstop < MaxStops
          /\ \E id \in StopIds :
                /\ req' = [tool |-> "stop_traffic_capture", id |-> ParseId(id)]
                /\ rawId' = id
          /\ nstop' = nstop + 1
          /\ pc' = "stop_lock"
    /\ input' = CallLine(req'.tool)
    /\ nlines' = nlines + 1
    /\ UNCHANGED <<cur, result, branch, rpcErr, nblank, nresp, server, regVars, procVars, watchVars>>
    /\ UNCHANGED <<snap, si, stoppedCount, wtpc, wi, done, tmr15, sigTried, sigOk, killTried>>

\* main: scanner.Scan() delivers an empty line: continue
ReadBlank ==
    /\ pc = "idle"
    /\ nlines < MaxInput
    /\ nlines' = nlines + 1
    /\ nblank' = nblank + 1
    /\ UNCHANGED <<pc, req, cur, result, branch, input, rawId, rpcErr, nresp, server>>
    /\ UNCHANGED <<regVars, procVars, watchVars, stopVars>>

\* main: json.Unmarshal(line, &req) fails: errorResponse(nil, -32700, ...)
ReadUnparsable ==
    /\ pc = "idle"
    /\ nlines < MaxInput
    /\ nlines' = nlines + 1
    /\ input' = Unparsable
    /\ \E raw \in RawIds : rawId' = raw
    /\ req' = NoRequest
    /\ rpcErr' = RPCError(ParseErrorCode, "Parse error")
    /\ pc' = "respond"
    /\ UNCHANGED <<cur, result, branch, nblank, nresp, server>>
    /\ UNCHANGED <<regVars, procVars, watchVars, stopVars>>

\* main + handleRequest + handleToolCall for a request that is answered
\* without running a tool
ReadDispatch ==
    /\ pc = "idle"
    /\ nlines < MaxInput
    /\ nlines' = nlines + 1
    /\ \E line \in QuickLines, raw \in RawIds :
          /\ input' = line
          /\ rawId' = raw
          /\ req' = [tool |-> line.name, id |-> ParseId(raw)]
          /\ rpcErr' = HandleRequestError(line)
          /\ result' = HandleRequestResult(line)
    /\ pc' = "respond"
    /\ UNCHANGED <<cur, branch, nblank, nresp, server>>
    /\ UNCHANGED <<regVars, procVars, watchVars, stopVars>>

\* main + handleRequest + handleToolCall: tools/call extract_leaf_configs
ReadExtract ==
    /\ pc = "idle"
    /\ nlines < MaxInput
    /\ nlines' = nlines + 1
    /\ input' = CallLine("extract_leaf_configs")
    /\ \E raw \in RawIds :
          /\ rawId' = raw
          /\ req' = [tool |-> "extract_leaf_configs", id |-> ParseId(raw)]
    /\ pc' = "sync_run"
    /\ UNCHANGED <<cur, result, branch, rpcErr, nblank, nresp, server>>
    /\ UNCHANGED <<regVars, procVars, watchVars, stopVars>>

\* extractLeafConfigs: executeScript runs the script to its end (exit status
\* zero, non-zero, or bash could not be run) and the result is returned
ExtractLeafConfigs ==
    /\ pc = "sync_run"
    /\ \E outcome \in {"exit 0", "exit 1", "not run"} :
          /\ branch' = outcome
          /\ result' = ExtractResult(outcome)
    /\ pc' = "respond"
    /\ UNCHANGED <<req, cur, ioVars>>
    /\ UNCHANGED <<regVars, procVars, watchVars, stopVars>>

\* the process ends: every goroutine that has not returned ends with it
Ended(at) ==
    IF at \in {"none", "done"} THEN at ELSE "ended"

\* main: scanner.Scan() returns false: end of input (main returns), or a line
\* longer than maxCapacity (scanner.Err() is bufio.ErrTooLong: os.Exit(1))
ScanStops ==
    /\ pc = "idle"
    /\ \/ /\ server' = "exit0"
          /\ UNCHANGED nlines
       \/ /\ nlines < MaxInput
          /\ server' = "exit1"
          /\ nlines' = nlines + 1
    /\ pc' = "exited"
    /\ wpc' = [h \in H |-> Ended(wpc[h])]
    /\ wtpc' = [k \in K |-> Ended(wtpc[k])]
    /\ UNCHANGED <<req, cur, result, branch, input, rawId, rpcErr, nblank, nresp>>
    /\ UNCHANGED <<regVars, procVars, reqKey, lineCount, lines0, outputChan, ctxDone, tmr>>
    /\ UNCHANGED <<nstop, snap, si, stoppedCount, wi, done, tmr15, sigTried, sigOk, killTried>>

\* main: resp := server.handleRequest(req); server.writeResponse(resp); the
\* handler's frame is gone when the loop goes back to scanner.Scan()
WriteResponse ==
    /\ pc = "respond"
    /\ pc' = "idle"
    /\ req' = NoRequest
    /\ cur' = 0
    /\ result' = NoResult
    /\ branch' = "none"
    /\ inWindow' = FALSE
    /\ si' = 0
    /\ stoppedCount' = 0
    /\ sigTried' = {}
    /\ sigOk' = {}
    /\ killTried' = {}
    /\ outputChan' = [h \in H |-> IF h = cur THEN <<>> ELSE outputChan[h]]
    /\ snap' = [k \in K |-> IF wtpc[k] \in {"send", "done"} THEN <<>> ELSE snap[k]]
    /\ done' = [k \in K |-> <<>>]
    /\ input' = NoInput
    /\ rawId' = NoId
    /\ rpcErr' = NoError
    /\ nresp' = nresp + 1
    /\ UNCHANGED <<nlines, nblank, server>>
    /\ UNCHANGED <<regVars, reqKey, wpc, lineCount, lines0, ctxDone, tmr>>
    /\ UNCHANGED <<nspawn, proc, sig, nwrites, reaped, waits>>
    /\ UNCHANGED <<nstop, wtpc, wi, tmr15>>

\* the JSONRPCResponse handleRequest returned (errorResponse, handleInitialize,
\* handleToolsList or handleToolCall), which writeResponse marshals
Envelope == Response(req.id, result, rpcErr)

\* the OS process of h exists and has not ended (a process blocked in a
\* write to a full pipe is alive)
Alive(h) == proc[h] \in {"running", "blocked"}

\* ------------------------------------------------------ cancellation token
\* cancel() of the context of start h.  exec.CommandContext kills the
\* process if the context becomes done before the command has been waited on.
CancelSig(h) ==
    IF Alive(h) /\ ~reaped[h] THEN "kill" ELSE sig[h]

\* ------------------------------------------------ startTrafficCapture
\* faulty variant of SpawnFail: the error return forgets cancel()
SpawnFailNoCancel(h, fmt) ==
    /\ result' = StartErrorResult(fmt)
    /\ pc' = "respond"
    /\ UNCHANGED <<proc, cur, ctxDone, sig>>

\* context.WithCancel, exec.CommandContext, StdoutPipe, StderrPipe, Start:
\* on the three error returns cancel() is called and an error result returned
SpawnFail(h, fmt) ==
    /\ ctxDone' = [ctxDone EXCEPT ![h] = TRUE]
    /\ sig' = [sig EXCEPT ![h] = CancelSig(h)]
    /\ result' = StartErrorResult(fmt)
    /\ pc' = "respond"
    /\ UNCHANGED <<proc, cur>>

\* faulty variant of SpawnOk: the handler goes on to launch the watcher
\* without registering the command
SpawnOkUnregistered(h) ==
    /\ proc' = [proc EXCEPT ![h] = "running"]
    /\ cur' = h
    /\ pc' = "st_go"
    /\ UNCHANGED <<ctxDone, sig, result>>

\* cmd.Start() succeeded: the handler goes on to register the command
SpawnOk(h) ==
    /\ proc' = [proc EXCEPT ![h] = "running"]
    /\ cur' = h
    /\ pc' = "st_lock"
    /\ UNCHANGED <<ctxDone, sig, result>>

StartSpawn ==
    /\ pc = "st_spawn"
    /\ nspawn' = nspawn + 1
    /\ \/ SpawnOk(nspawn + 1)
       \/ \E fmt \in {ErrStdoutFmt, ErrStderrFmt, ErrStartFmt} : SpawnFail(nspawn + 1, fmt)
    /\ UNCHANGED <<req, branch, regVars, stopVars>>
    /\ UNCHANGED <<nwrites, inWindow, reaped, waits>>
    /\ UNCHANGED <<reqKey, wpc, lineCount, lines0, outputChan, tmr>>
    /\ UNCHANGED ioVars

\* s.mu.Lock() before the insert
StartLock ==
    /\ pc = "st_lock"
    /\ mu = FreeMu
    /\ mu' = MainTask
    /\ pc' = "st_insert"
    /\ UNCHANGED <<req, cur, result, branch, activeCalls, procVars, watchVars, stopVars>>
    /\ UNCHANGED ioVars

\* faulty variant of Insert: an entry already under the key is kept beside
\* the new one
InsertBeside(calls, requestID, h) ==
    IF requestID \in DOMAIN calls THEN ("beside" :> h) @@ calls
    ELSE (requestID :> h) @@ calls

\* s.activeCalls[requestID] = &ActiveCall{ID: id, Cancel: cancel, Cmd: cmd}
\* (ID is never read; Cancel is the cancel of the context of cmd)
Insert(calls, requestID, h) ==
    (requestID :> h) @@ calls

\* the insert and s.mu.Unlock()
StartInsert ==
    /\ pc = "st_insert"
    /\ mu = MainTask
    /\ activeCalls' = Insert(activeCalls, FmtV(req.id), cur)
    /\ reqKey' = [reqKey EXCEPT ![cur] = FmtV(req.id)]
    /\ mu' = FreeMu
    /\ pc' = "st_go"
    /\ UNCHANGED <<req, cur, result, branch, procVars, stopVars>>
    /\ UNCHANGED <<wpc, lineCount, lines0, outputChan, ctxDone, tmr>>
    /\ UNCHANGED ioVars

\* outputChan := make(chan string, 1); go func(){...}(); the select arms
\* time.After(5 * time.Second)
StartGo ==
    /\ pc = "st_go"
    /\ wpc' = [wpc EXCEPT ![cur] = "scan"]
    /\ tmr' = "armed"
    /\ pc' = "st_select"
    /\ UNCHANGED <<req, cur, result, branch, regVars, procVars, stopVars>>
    /\ UNCHANGED <<reqKey, lineCount, lines0, outputChan, ctxDone>>
    /\ UNCHANGED ioVars

\* the 5 s timer of the select elapses
Deadline5 ==
    /\ tmr = "armed"
    /\ tmr' = "fired"
    /\ UNCHANGED <<mainVars, regVars, procVars, stopVars>>
    /\ UNCHANGED <<reqKey, wpc, lineCount, lines0, outputChan, ctxDone>>

\* the three cases of the select; Go picks any ready case
SelectOutput(h) ==
    /\ Len(outputChan[h]) > 0
    /\ result' = StartedResult(FmtV(req.id), Head(outputChan[h]))
    /\ outputChan' = [outputChan EXCEPT ![h] = Tail(outputChan[h])]
    /\ branch' = "output"

\* faulty variant of SelectDeadline: the timeout is reported as a tool error
SelectDeadlineAsError(h) ==
    /\ tmr = "fired"
    /\ result' = StartErrorResult(TimeoutText)
    /\ branch' = "deadline"
    /\ UNCHANGED outputChan

\* faulty variant of SelectDeadline: a select without the time.After case
SelectWithoutDeadline(h) ==
    /\ FALSE
    /\ UNCHANGED <<result, branch, outputChan>>

SelectDeadline(h) ==
    /\ tmr = "fired"
    /\ result' = StartedResult(FmtV(req.id), TimeoutText)
    /\ branch' = "deadline"
    /\ UNCHANGED outputChan

SelectCancelled(h) ==
    /\ ctxDone[h]
    /\ result' = CancelledResult
    /\ branch' = "cancelled"
    /\ UNCHANGED outputChan

\* faulty variant of StartSelect: the handler cancels the context when it
\* returns (a deferred cancel())
StartSelectDeferCancel ==
    /\ pc = "st_select"
    /\ \/ SelectOutput(cur)
       \/ SelectDeadline(cur)
       \/ SelectCancelled(cur)
    /\ tmr' = "unset"
    /\ pc' = "respond"
    /\ ctxDone' = [ctxDone EXCEPT ![cur] = TRUE]
    /\ sig' = [sig EXCEPT ![cur] = CancelSig(cur)]
    /\ UNCHANGED <<req, cur, regVars, stopVars>>
    /\ UNCHANGED <<nspawn, proc, nwrites, inWindow, reaped, waits>>
    /\ UNCHANGED <<reqKey, wpc, lineCount, lines0>>
    /\ UNCHANGED ioVars

\* select { case <-outputChan; case <-time.After(5s); case <-ctx.Done() }
StartSelect ==
    /\ pc = "st_select"
    /\ \/ SelectOutput(cur)
       \/ SelectDeadline(cur)
       \/ SelectCancelled(cur)
    /\ tmr' = "unset"
    /\ pc' = "respond"
    /\ UNCHANGED <<req, cur, regVars, procVars, stopVars>>
    /\ UNCHANGED <<reqKey, wpc, lineCount, lines0, ctxDone>>
    /\ UNCHANGED ioVars

\* ------------------------------------------------------ supervised command
\* how many lines a command writes at once
Bursts == {1, maxLines + 1}

\* the process ends: by itself, on a SIGTERM it honours, or on SIGKILL
ProcExit(h) ==
    /\ proc[h] = "running"
    /\ proc' = [proc EXCEPT ![h] = "exited"]
    /\ sig' = [sig EXCEPT ![h] = "none"]
    /\ UNCHANGED <<mainVars, regVars, watchVars, stopVars>>
    /\ UNCHANGED <<nspawn, nwrites, inWindow, reaped, waits>>

\* scanner := bufio.NewScanner(io.MultiReader(stdout, stderr)): the reader
\* takes stderr up only after stdout gave end of file, which it does when the
\* process is gone.  A process that writes more to stderr than the pipe holds
\* is left blocked in that write.
ProcBlocksOnStderr(h) ==
    /\ proc[h] = "running"
    /\ proc' = [proc EXCEPT ![h] = "blocked"]
    /\ UNCHANGED <<mainVars, regVars, watchVars, stopVars>>
    /\ UNCHANGED <<nspawn, sig, nwrites, inWindow, reaped, waits>>

\* nothing reads stderr while the process lives: a blocked process only ends,
\* on the SIGTERM of a stop or on SIGKILL
BlockedProcEnds(h) ==
    /\ proc[h] = "blocked"
    /\ sig[h] = "kill" \/ h \in sigOk
    /\ proc' = [proc EXCEPT ![h] = "exited"]
    /\ sig' = [sig EXCEPT ![h] = "none"]
    /\ UNCHANGED <<mainVars, regVars, watchVars, stopVars>>
    /\ UNCHANGED <<nspawn, nwrites, inWindow, reaped, waits>>

\* a delivered SIGKILL ends the process (SIGTERM may be ignored)
ProcDie(h) ==
    /\ sig[h] = "kill"
    /\ ProcExit(h)

\* cmd.Wait(): blocks until the process has exited; the first Wait to
\* return collects the status and closes the pipes
WaitReady(h) == proc[h] = "exited"

\* ------------------------------------------------------- watcher goroutine
\* scanner.Scan() returns false: end of file, the writer is gone
ScanEnd(h) == proc[h] = "exited"

\* the lines the first loop keeps of a burst of n, and whether it goes on:
\* for scanner.Scan() && lineCount < maxLines { append; lineCount++ }
\* leaves when a Scan() succeeds with lineCount = maxLines already
Kept(h, n) == Min(lineCount[h] + n, maxLines)

LoopGoesOn(h, n) == lineCount[h] + n <= maxLines

\* the command writes a burst of n lines and the scanner of the first loop
\* reads them
ScanBurst(h, n) ==
    /\ wpc[h] = "scan"
    /\ proc[h] = "running"
    /\ nwrites[h] < MaxWrites
    /\ lineCount' = [lineCount EXCEPT ![h] = Kept(h, n)]
    /\ wpc' = [wpc EXCEPT ![h] = IF LoopGoesOn(h, n) THEN "scan" ELSE "send"]
    /\ lines0' = [lines0 EXCEPT ![h] = IF lineCount[h] = 0 THEN FirstLine(h) ELSE lines0[h]]
    /\ nwrites' = [nwrites EXCEPT ![h] = nwrites[h] + 1]
    /\ inWindow' = (inWindow \/ (h = cur /\ tmr = "armed"))
    /\ UNCHANGED <<mainVars, regVars, stopVars>>
    /\ UNCHANGED <<nspawn, proc, sig, reaped, waits>>
    /\ UNCHANGED <<reqKey, outputChan, ctxDone, tmr>>

WatcherScanLines(h) ==
    \E n \in Bursts : ScanBurst(h, n)

\* the command writes just the lines that bring lineCount to maxLines
WatcherScanCap(h) ==
    /\ lineCount[h] < maxLines
    /\ ScanBurst(h, maxLines - lineCount[h])

\* scanner.Scan() of the first loop returns false
WatcherScanEnd(h) ==
    /\ wpc[h] = "scan"
    /\ ScanEnd(h)
    /\ wpc' = [wpc EXCEPT ![h] = "send"]
    /\ UNCHANGED <<mainVars, regVars, procVars, stopVars>>
    /\ UNCHANGED <<reqKey, lineCount, lines0, outputChan, ctxDone, tmr>>

\* the value the watcher delivers
FirstOutput(h) ==
    IF lineCount[h] > 0 THEN lines0[h] ELSE SentinelText

\* faulty variant of WatcherSend: outputChan is unbuffered, the send needs
\* the handler to be receiving in its select
WatcherSendUnbuffered(h) ==
    /\ wpc[h] = "send"
    /\ h = cur /\ pc = "st_select"
    /\ Len(outputChan[h]) < 1
    /\ outputChan' = [outputChan EXCEPT ![h] = Append(outputChan[h], FirstOutput(h))]
    /\ lineCount' = [lineCount EXCEPT ![h] = 0]
    /\ lines0' = [lines0 EXCEPT ![h] = NoLine]
    /\ nwrites' = [nwrites EXCEPT ![h] = 0]
    /\ wpc' = [wpc EXCEPT ![h] = "drain"]
    /\ UNCHANGED <<mainVars, regVars, stopVars>>
    /\ UNCHANGED <<nspawn, proc, sig, inWindow, reaped, waits>>
    /\ UNCHANGED <<reqKey, ctxDone, tmr>>

\* outputChan <- ...; lines and lineCount are not read afterwards, and the
\* channel is garbage once its start handler has returned
WatcherSend(h) ==
    /\ wpc[h] = "send"
    /\ Len(outputChan[h]) < 1
    /\ outputChan' = [outputChan EXCEPT ![h] = IF h = cur THEN Append(outputChan[h], FirstOutput(h)) ELSE <<>>]
    /\ lineCount' = [lineCount EXCEPT ![h] = 0]
    /\ lines0' = [lines0 EXCEPT ![h] = NoLine]
    /\ nwrites' = [nwrites EXCEPT ![h] = 0]
    /\ wpc' = [wpc EXCEPT ![h] = "drain"]
    /\ UNCHANGED <<mainVars, regVars, stopVars>>
    /\ UNCHANGED <<nspawn, proc, sig, inWindow, reaped, waits>>
    /\ UNCHANGED <<reqKey, ctxDone, tmr>>

\* for scanner.Scan() {}: lines are read and dropped until Scan() returns false
WatcherDrain(h) ==
    /\ wpc[h] = "drain"
    /\ ScanEnd(h)
    /\ wpc' = [wpc EXCEPT ![h] = "wait"]
    /\ UNCHANGED <<mainVars, regVars, procVars, stopVars>>
    /\ UNCHANGED <<reqKey, lineCount, lines0, outputChan, ctxDone, tmr>>

\* defer: cmd.Wait()
WatcherWait(h) ==
    /\ wpc[h] = "wait"
    /\ WaitReady(h)
    /\ reaped' = [reaped EXCEPT ![h] = TRUE]
    /\ waits' = [waits EXCEPT ![h] = waits[h] \cup {Watcher(h)}]
    /\ wpc' = [wpc EXCEPT ![h] = "lock"]
    /\ UNCHANGED <<mainVars, regVars, stopVars>>
    /\ UNCHANGED <<nspawn, proc, sig, nwrites, inWindow>>
    /\ UNCHANGED <<reqKey, lineCount, lines0, outputChan, ctxDone, tmr>>

\* faulty variant of WatcherLock: the watcher goes on without waiting for
\* the mutex
WatcherLockNoWait(h) ==
    /\ wpc[h] = "lock"
    /\ mu' = Watcher(h)
    /\ wpc' = [wpc EXCEPT ![h] = "delete"]
    /\ UNCHANGED <<mainVars, activeCalls, procVars, stopVars>>
    /\ UNCHANGED <<reqKey, lineCount, lines0, outputChan, ctxDone, tmr>>

\* defer: s.mu.Lock()
WatcherLock(h) ==
    /\ wpc[h] = "lock"
    /\ mu = FreeMu
    /\ mu' = Watcher(h)
    /\ wpc' = [wpc EXCEPT ![h] = "delete"]
    /\ UNCHANGED <<mainVars, activeCalls, procVars, stopVars>>
    /\ UNCHANGED <<reqKey, lineCount, lines0, outputChan, ctxDone, tmr>>

\* faulty variant of Delete: the entry is left in the map
DeleteNothing(calls, requestID) ==
    calls

\* delete(s.activeCalls, requestID)
Delete(calls, requestID) ==
    [key \in DOMAIN calls \ {requestID} |-> calls[key]]

\* defer: the delete and s.mu.Unlock()
WatcherDelete(h) ==
    /\ wpc[h] = "delete"
    /\ mu = Watcher(h)
    /\ activeCalls' = Delete(activeCalls, reqKey[h])
    /\ reqKey' = [reqKey EXCEPT ![h] = ""]
    /\ mu' = FreeMu
    /\ wpc' = [wpc EXCEPT ![h] = "cancel"]
    /\ UNCHANGED <<mainVars, procVars, stopVars>>
    /\ UNCHANGED <<lineCount, lines0, outputChan, ctxDone, tmr>>

\* faulty variant of WatcherCancel: the defer ends without cancel()
WatcherCancelForgotten(h) ==
    /\ wpc[h] = "cancel"
    /\ wpc' = [wpc EXCEPT ![h] = "done"]
    /\ UNCHANGED <<mainVars, regVars, procVars, stopVars>>
    /\ UNCHANGED <<reqKey, lineCount, lines0, outputChan, ctxDone, tmr>>

\* defer: cancel()
WatcherCancel(h) ==
    /\ wpc[h] = "cancel"
    /\ ctxDone' = [ctxDone EXCEPT ![h] = TRUE]
    /\ sig' = [sig EXCEPT ![h] = CancelSig(h)]
    /\ wpc' = [wpc EXCEPT ![h] = "done"]
    /\ UNCHANGED <<mainVars, regVars, stopVars>>
    /\ UNCHANGED <<nspawn, proc, nwrites, inWindow, reaped, waits>>
    /\ UNCHANGED <<reqKey, lineCount, lines0, outputChan, tmr>>

\* ------------------------------------------------- stopTrafficCapture
\* s.mu.Lock()
StopLock ==
    /\ pc = "stop_lock"
    /\ mu = FreeMu
    /\ mu' = MainTask
    /\ pc' = "stop_snap"
    /\ UNCHANGED <<req, cur, result, branch, activeCalls, procVars, watchVars, stopVars>>
    /\ UNCHANGED ioVars

\* the handles the range over s.activeCalls copies out (every entry has a
\* started command: call.Cmd != nil && call.Cmd.Process != nil)
SnapshotSet(calls) ==
    { calls[key] : key \in DOMAIN calls }

\* faulty variant of StopSnapshot: the mutex is kept after the copy loop
StopSnapshotHoldsLock ==
    /\ pc = "stop_snap"
    /\ mu = MainTask
    /\ \E s \in Orders(SnapshotSet(activeCalls)) :
          /\ snap' = [snap EXCEPT ![nstop] = s]
          /\ IF Len(s) = 0
             THEN /\ result' = NoActiveResult
                  /\ pc' = "respond"
                  /\ UNCHANGED si
             ELSE /\ pc' = "stop_sig"
                  /\ si' = 1
                  /\ UNCHANGED result
    /\ UNCHANGED <<req, cur, branch, regVars, procVars, watchVars>>
    /\ UNCHANGED <<nstop, stoppedCount, wtpc, wi, done, tmr15, sigTried, sigOk, killTried>>
    /\ UNCHANGED ioVars

\* the copy loop in map-iteration order, s.mu.Unlock(), and the early
\* return when nothing was copied
StopSnapshot ==
    /\ pc = "stop_snap"
    /\ mu = MainTask
    /\ \E s \in Orders(SnapshotSet(activeCalls)) :
          /\ snap' = [snap EXCEPT ![nstop] = s]
          /\ IF Len(s) = 0
             THEN /\ result' = NoActiveResult
                  /\ pc' = "respond"
                  /\ UNCHANGED si
             ELSE /\ pc' = "stop_sig"
                  /\ si' = 1
                  /\ UNCHANGED result
    /\ mu' = FreeMu
    /\ UNCHANGED <<req, cur, branch, activeCalls, procVars, watchVars>>
    /\ UNCHANGED <<nstop, stoppedCount, wtpc, wi, done, tmr15, sigTried, sigOk, killTried>>
    /\ UNCHANGED ioVars

\* cmd.Process.Signal(syscall.SIGTERM) returns nil unless the process has
\* already been waited on (os: process already finished)
SignalOk(h) == ~reaped[h]

\* faulty variant of StopSignal: the stop also calls call.Cancel() of the
\* capture it signals
StopSignalCancels ==
    /\ pc = "stop_sig"
    /\ LET h == snap[nstop][si]
       IN /\ sigTried' = sigTried \cup {h}
          /\ ctxDone' = [ctxDone EXCEPT ![h] = TRUE]
          /\ sig' = [sig EXCEPT ![h] = CancelSig(h)]
          /\ IF SignalOk(h)
             THEN /\ stoppedCount' = stoppedCount + 1
                  /\ sigOk' = sigOk \cup {h}
             ELSE UNCHANGED <<stoppedCount, sigOk>>
    /\ IF si < Len(snap[nstop])
       THEN /\ si' = si + 1
            /\ UNCHANGED pc
       ELSE /\ si' = 0
            /\ pc' = "stop_go"
    /\ UNCHANGED <<req, cur, result, branch, regVars>>
    /\ UNCHANGED <<nspawn, proc, nwrites, inWindow, reaped, waits>>
    /\ UNCHANGED <<reqKey, wpc, lineCount, lines0, outputChan, tmr>>
    /\ UNCHANGED <<nstop, snap, wtpc, wi, done, tmr15, killTried>>
    /\ UNCHANGED ioVars

\* faulty variant of StopSignal: a failed Signal() leaves the loop
StopSignalAbortOnError ==
    /\ pc = "stop_sig"
    /\ LET h == snap[nstop][si]
       IN /\ sigTried' = sigTried \cup {h}
          /\ IF SignalOk(h)
             THEN /\ stoppedCount' = stoppedCount + 1
                  /\ sigOk' = sigOk \cup {h}
                  /\ IF si < Len(snap[nstop])
                     THEN /\ si' = si + 1
                          /\ UNCHANGED pc
                     ELSE /\ si' = 0
                          /\ pc' = "stop_go"
             ELSE /\ si' = 0
                  /\ pc' = "stop_go"
                  /\ UNCHANGED <<stoppedCount, sigOk>>
    /\ UNCHANGED <<req, cur, result, branch, regVars, procVars, watchVars>>
    /\ UNCHANGED <<nstop, snap, wtpc, wi, done, tmr15, killTried>>
    /\ UNCHANGED ioVars

\* one iteration of the signal loop
StopSignal ==
    /\ pc = "stop_sig"
    /\ LET h == snap[nstop][si]
       IN /\ sigTried' = sigTried \cup {h}
          /\ IF SignalOk(h)
             THEN /\ stoppedCount' = stoppedCount + 1
                  /\ sigOk' = sigOk \cup {h}
             ELSE UNCHANGED <<stoppedCount, sigOk>>
    /\ IF si < Len(snap[nstop])
       THEN /\ si' = si + 1
            /\ UNCHANGED pc
       ELSE /\ si' = 0
            /\ pc' = "stop_go"
    /\ UNCHANGED <<req, cur, result, branch, regVars, procVars, watchVars>>
    /\ UNCHANGED <<nstop, snap, wtpc, wi, done, tmr15, killTried>>
    /\ UNCHANGED ioVars

\* done := make(chan bool, 1); go func(){...}(); the select arms
\* time.After(15 * time.Second)
StopGo ==
    /\ pc = "stop_go"
    /\ wtpc' = [wtpc EXCEPT ![nstop] = "wait"]
    /\ wi' = [wi EXCEPT ![nstop] = 1]
    /\ tmr15' = "armed"
    /\ pc' = "stop_select"
    /\ UNCHANGED <<req, cur, result, branch, regVars, procVars, watchVars>>
    /\ UNCHANGED <<nstop, snap, si, stoppedCount, done, sigTried, sigOk, killTried>>
    /\ UNCHANGED ioVars

\* the 15 s timer of the select elapses
Deadline15 ==
    /\ tmr15 = "armed"
    /\ tmr15' = "fired"
    /\ UNCHANGED <<mainVars, regVars, procVars, watchVars>>
    /\ UNCHANGED <<nstop, snap, si, stoppedCount, wtpc, wi, done, sigTried, sigOk, killTried>>

\* the main goroutine is inside the handler of stop k
InStop(k) ==
    /\ nstop = k
    /\ req.tool = "stop_traffic_capture"
    /\ pc \in {"stop_sig", "stop_go", "stop_select", "stop_kill", "respond"}

\* waiter goroutine: one cmd.Wait() of  for _, cmd := range captureProcesses
\* (after the last one captureProcesses is not read by the waiter any more)
WaiterWait(k) ==
    /\ wtpc[k] = "wait"
    /\ LET h == snap[k][wi[k]]
       IN /\ WaitReady(h)
          /\ reaped' = [reaped EXCEPT ![h] = TRUE]
          /\ waits' = [waits EXCEPT ![h] = waits[h] \cup {Waiter(k)}]
    /\ IF wi[k] < Len(snap[k])
       THEN /\ wi' = [wi EXCEPT ![k] = wi[k] + 1]
            /\ UNCHANGED wtpc
       ELSE /\ wi' = [wi EXCEPT ![k] = 0]
            /\ wtpc' = [wtpc EXCEPT ![k] = "send"]
    /\ snap' = [snap EXCEPT ![k] = IF wi[k] < Len(snap[k]) \/ InStop(k) THEN snap[k] ELSE <<>>]
    /\ UNCHANGED <<mainVars, regVars, watchVars>>
    /\ UNCHANGED <<nspawn, proc, sig, nwrites, inWindow>>
    /\ UNCHANGED <<nstop, si, stoppedCount, done, tmr15, sigTried, sigOk, killTried>>

\* waiter goroutine: done <- true (the channel is garbage once its stop
\* handler has returned)
WaiterSend(k) ==
    /\ wtpc[k] = "send"
    /\ Len(done[k]) < 1
    /\ done' = [done EXCEPT ![k] = IF InStop(k) THEN Append(done[k], TRUE) ELSE <<>>]
    /\ wtpc' = [wtpc EXCEPT ![k] = "done"]
    /\ UNCHANGED <<mainVars, regVars, procVars, watchVars>>
    /\ UNCHANGED <<nstop, snap, si, stoppedCount, wi, tmr15, sigTried, sigOk, killTried>>

\* faulty variant of SelectDone: the done case goes on to the kill loop
SelectDoneThenKill(k) ==
    /\ Len(done[k]) > 0
    /\ done' = [done EXCEPT ![k] = Tail(done[k])]
    /\ branch' = "done"
    /\ pc' = "stop_kill"
    /\ si' = 1
    /\ UNCHANGED result

\* select, case <-done: all captures stopped; the result is returned
SelectDone(k) ==
    /\ Len(done[k]) > 0
    /\ done' = [done EXCEPT ![k] = Tail(done[k])]
    /\ result' = StoppedResult(stoppedCount)
    /\ branch' = "done"
    /\ pc' = "respond"
    /\ UNCHANGED si

\* faulty variant of SelectTimeout: the timeout case returns without the
\* kill loop
SelectTimeoutNoKill(k) ==
    /\ tmr15 = "fired"
    /\ branch' = "timeout"
    /\ result' = StoppedResult(stoppedCount)
    /\ pc' = "respond"
    /\ UNCHANGED <<done, si>>

\* select, case <-time.After(15s): go on to the kill loop
SelectTimeout(k) ==
    /\ tmr15 = "fired"
    /\ branch' = "timeout"
    /\ pc' = "stop_kill"
    /\ si' = 1
    /\ UNCHANGED <<done, result>>

\* faulty variant of StopSelect: the stop empties the registry itself when
\* its select is over
StopSelectClearsRegistry ==
    /\ pc = "stop_select"
    /\ \/ SelectDone(nstop)
       \/ SelectTimeout(nstop)
    /\ tmr15' = "unset"
    /\ activeCalls' = <<>>
    /\ UNCHANGED <<req, cur, mu, procVars, watchVars>>
    /\ UNCHANGED <<nstop, snap, stoppedCount, wtpc, wi, sigTried, sigOk, killTried>>
    /\ UNCHANGED ioVars

\* select { case <-done; case <-time.After(15 * time.Second) }
StopSelect ==
    /\ pc = "stop_select"
    /\ \/ SelectDone(nstop)
       \/ SelectTimeout(nstop)
    /\ tmr15' = "unset"
    /\ UNCHANGED <<req, cur, regVars, procVars, watchVars>>
    /\ UNCHANGED <<nstop, snap, stoppedCount, wtpc, wi, sigTried, sigOk, killTried>>
    /\ UNCHANGED ioVars

\* faulty variant of KillSig: Kill() delivers nothing
KillSigLost(h) ==
    sig[h]

\* cmd.Process.Kill(): SIGKILL, unless the process was already waited on
KillSig(h) ==
    IF Alive(h) /\ ~reaped[h] THEN "kill" ELSE sig[h]

\* one iteration of the kill loop; after the last one the result is returned
StopKill ==
    /\ pc = "stop_kill"
    /\ LET h == snap[nstop][si]
       IN /\ killTried' = killTried \cup {h}
          /\ sig' = [sig EXCEPT ![h] = KillSig(h)]
    /\ IF si < Len(snap[nstop])
       THEN /\ si' = si + 1
            /\ UNCHANGED <<pc, result>>
       ELSE /\ si' = 0
            /\ result' = StoppedResult(stoppedCount)
            /\ pc' = "respond"
    /\ UNCHANGED <<req, cur, branch, regVars, watchVars>>
    /\ UNCHANGED <<nspawn, proc, nwrites, inWindow, reaped, waits>>
    /\ UNCHANGED <<nstop, snap, stoppedCount, wtpc, wi, done, tmr15, sigTried, sigOk>>
    /\ UNCHANGED ioVars

\* ------------------------------------------------------------ specification
MainStep ==
    \/ ReadRequest
    \/ WriteResponse
    \/ StartSpawn
    \/ StartLock
    \/ StartInsert
    \/ StartGo
    \/ StartSelect
    \/ StopLock
    \/ StopSnapshot
    \/ StopSignal
    \/ StopGo
    \/ StopSelect
    \/ StopKill

\* the steps a watcher takes by itself (the arrival of lines is the command's)
WatcherStep(h) ==
    \/ WatcherScanEnd(h)
    \/ WatcherSend(h)
    \/ WatcherDrain(h)
    \/ WatcherWait(h)
    \/ WatcherLock(h)
    \/ WatcherDelete(h)
    \/ WatcherCancel(h)

WaiterStep(k) ==
    \/ WaiterWait(k)
    \/ WaiterSend(k)

Next ==
    \/ MainStep
    \/ \E h \in H : WatcherStep(h)
    \/ \E k \in K : WaiterStep(k)
    \/ \E h \in H : WatcherScanLines(h)
    \/ \E h \in H : ProcExit(h)
    \/ Deadline5
    \/ Deadline15

Spec == Init /\ [][Next]_vars

\* the server with every kind of input line, until it exits
DispatchNext ==
    \/ Next
    \/ ReadBlank
    \/ ReadUnparsable
    \/ ReadDispatch
    \/ ReadExtract
    \/ ExtractLeafConfigs
    \/ ScanStops

DispatchSpec == Init /\ [][DispatchNext]_vars

\* the server with commands that also write to standard error, and commands
\* that write exactly as many lines as the first loop keeps
PipeNext ==
    \/ Next
    \/ \E h \in H : WatcherScanCap(h)
    \/ \E h \in H : ProcBlocksOnStderr(h)
    \/ \E h \in H : BlockedProcEnds(h)

PipeSpec == Init /\ [][PipeNext]_vars

\* the Go scheduler runs every runnable goroutine, timers elapse, and a
\* process that got SIGKILL ends
FairSpec ==
    /\ Spec
    /\ WF_vars(MainStep)
    /\ \A h \in H : WF_vars(WatcherStep(h))
    /\ \A k \in K : WF_vars(WaiterStep(k))
    /\ WF_vars(Deadline5)
    /\ WF_vars(Deadline15)
    /\ \A h \in H : WF_vars(ProcDie(h))

\* ------------------------------------------------------------------ claims
\* the commands start_traffic_capture has spawned
Spawned == { h \in H : proc[h] # "unstarted" }

AllSpawnedRunning == \A h \in Spawned : proc[h] = "running"

\* the stop handler has finished its signal loop
SignalLoopDone == req.tool = "stop_traffic_capture" /\ pc = "stop_go"

\* a handler has returned and its response is about to be written
StartReturned == pc = "respond" /\ req.tool = "start_traffic_capture"

StopReturned == pc = "respond" /\ req.tool = "stop_traffic_capture"

\* the start handler returned from its select: the command had been spawned
SpawnedStartReturned == StartReturned /\ cur # 0

\* the stop handler returned after it found captures
StopFoundReturned == StopReturned /\ result.fmt = StoppedFmt

\* the handles the registry holds
Registered == SnapshotSet(activeCalls)

\* C1: after N starts have each spawned a command that is still running, the
\* stop that follows counts N signaled captures: no started call is missing
\* from the snapshot stop takes of the registry.
C1_StopCountsEveryRunningCapture ==
    /\ (SignalLoopDone /\ AllSpawnedRunning) => stoppedCount = Cardinality(Spawned)
    /\ (pc = "respond" /\ result = NoActiveResult /\ AllSpawnedRunning) => Cardinality(Spawned) = 0

\* C1 for starts whose identifiers have pairwise different string forms
DistinctKeys == \A g, h \in Spawned : (g # h /\ reqKey[g] # "" /\ reqKey[h] # "") => reqKey[g] # reqKey[h]

C1_DistinctKeysCount ==
    (SignalLoopDone /\ AllSpawnedRunning /\ DistinctKeys) => stoppedCount = Cardinality(Spawned)

\* C2: when the command wrote a line before the 5 s deadline elapsed, the
\* start response carries that first line as its initial output, not the
\* timeout text.
C2_FirstLineInWindowIsDelivered ==
    (SpawnedStartReturned /\ inWindow) =>
        (branch = "output" /\ result = StartedResult(FmtV(req.id), FirstLine(cur)))

\* C2, the case of the claim's example: the command printed one line in the
\* window and idles; the watcher holds the line in its first loop
C2_IdleAfterFirstLine ==
    /\ SpawnedStartReturned
    /\ inWindow
    /\ proc[cur] = "running"
    /\ wpc[cur] = "scan"
    /\ lineCount[cur] = 1

\* the watcher of h has finished, the registry does not hold h, and no
\* waiter still has h in its captureProcesses
Released(h) ==
    /\ wpc[h] = "done"
    /\ h \notin Registered
    /\ \A k \in K : wtpc[k] = "wait" => h \notin Range(snap[k])

InStopHandler ==
    pc \in {"stop_lock", "stop_snap", "stop_sig", "stop_go", "stop_select", "stop_kill"}

\* C4: when the 15 s wait elapses first, stop calls Kill() on every handle of
\* its snapshot (a command still alive gets SIGKILL) and returns a non-error
\* result; and stop always returns, whatever the commands do.
C4_EscalationAndReturn ==
    /\ []((StopReturned /\ branch = "timeout") =>
            /\ killTried = sigTried
            /\ \A h \in sigTried : proc[h] = "running" => sig[h] = "kill"
            /\ result = StoppedResult(Cardinality(sigOk)))
    /\ (InStopHandler ~> StopReturned)

\* stop returned through the timeout case with a command still alive
C4_KilledSurvivor ==
    /\ StopReturned
    /\ branch = "timeout"
    /\ \E h \in killTried : proc[h] = "running" /\ sig[h] = "kill"

\* C5: every handle copied into a stop's snapshot is eventually reaped (a
\* cmd.Wait() on it returns), on the graceful and on the forced-kill path.
C5_SnapshotHandlesEventuallyReaped ==
    \A h \in H : (h \in sigTried) ~> reaped[h]

\* a handle that was killed after the timeout has been reaped
C5_ReapedAfterKill ==
    /\ StopReturned
    /\ branch = "timeout"
    /\ \E h \in killTried : reaped[h] /\ waits[h] # {}

\* the signal loop of the stop being handled is over
AfterSignalLoop ==
    \/ req.tool = "stop_traffic_capture" /\ pc \in {"stop_go", "stop_select", "stop_kill"}
    \/ StopFoundReturned

\* C6: stop always returns a non-error result; it tries SIGTERM on every
\* handle of its snapshot, which holds every registered call; a failed
\* Signal() does not end the loop; the count is the number of successes.
C6_StopSignalsAllAndCounts ==
    /\ StopReturned => ~result.IsError
    /\ AfterSignalLoop =>
          /\ sigTried = Range(snap[nstop])
          /\ Registered \subseteq sigTried
          /\ sigOk \subseteq sigTried
          /\ stoppedCount = Cardinality(sigOk)
    /\ StopFoundReturned => result = StoppedResult(Cardinality(sigOk))

\* a stop returned whose first Signal() failed and whose second succeeded
C6_FailedThenSucceeded ==
    /\ StopFoundReturned
    /\ Len(snap[nstop]) = 2
    /\ snap[nstop][1] \notin sigOk
    /\ snap[nstop][2] \in sigOk

\* C7: with an empty registry the stop handler returns at once with the
\* non-error "no active captures" result: no signal is sent, no waiter and
\* no timer is started, and the registry is left as it was.
C7_EmptyStopReturnsAtOnce ==
    [][(pc = "stop_snap" /\ activeCalls = <<>> /\ pc' # pc) =>
          /\ pc' = "respond"
          /\ result'.fmt = NoActiveText
          /\ ~result'.IsError
          /\ activeCalls' = activeCalls
          /\ sigTried' = {} /\ killTried' = {}
          /\ sig' = sig
          /\ wtpc' = wtpc
          /\ tmr15' = tmr15]_vars

\* an empty stop returned after a capture had come and gone
C7_EmptyStopAfterCapture ==
    /\ StopReturned
    /\ result.fmt = NoActiveText
    /\ activeCalls = <<>>
    /\ \E h \in H : wpc[h] = "done"

\* C8: a start whose command cannot be started returns an error result,
\* leaves the registry as it was, launches no watcher and cancels its context.
C8_FailedStartRegistersNothing ==
    [][(pc = "st_spawn" /\ pc' = "respond") =>
          /\ result'.IsError
          /\ result'.fmt \in {ErrStdoutFmt, ErrStderrFmt, ErrStartFmt}
          /\ activeCalls' = activeCalls
          /\ wpc' = wpc
          /\ proc'[nspawn'] = "unstarted"
          /\ ctxDone'[nspawn']]_vars

\* a start failed while another capture was registered
C8_FailedStartBesideCapture ==
    /\ StartReturned
    /\ result.IsError
    /\ cur = 0
    /\ activeCalls # <<>>
    /\ ctxDone[nspawn]
    /\ wpc[nspawn] = "none"

\* the command of the start being handled has written nothing its watcher's
\* first loop read
Silent(h) ==
    \/ wpc[h] \in {"scan", "send"} /\ lineCount[h] = 0
    \/ outputChan[h] = <<SentinelText>>
    \/ branch = "output" /\ result.out = SentinelText

\* the text of a result
Text(r) == <<r.fmt, r.reqID, r.out, r.count>>

\* the responses of the three outcomes for the start being handled, the
\* watcher delivering value v
OutcomeTexts(v) ==
    [output |-> Text(StartedResult(FmtV(req.id), v)),
     deadline |-> Text(StartedResult(FmtV(req.id), TimeoutText)),
     cancelled |-> Text(CancelledResult)]

Delivered(h) == { FirstLine(h), SentinelText }

InStartHandler ==
    pc \in {"st_spawn", "st_lock", "st_insert", "st_go", "st_select"}

\* C10: the start handler always returns: while it waits in its select the
\* 5 s timer is pending or has elapsed, and the handler reaches its return
\* whether or not the command writes, exits or is cancelled.
C10_StartAlwaysReturns ==
    /\ [](pc = "st_select" => tmr \in {"armed", "fired"})
    /\ (InStartHandler ~> StartReturned)

\* the handler returned through the deadline while its command was silent
\* and still running
C10_ReturnedOnDeadline ==
    /\ SpawnedStartReturned
    /\ branch = "deadline"
    /\ proc[cur] = "running"
    /\ wpc[cur] = "scan"
    /\ lineCount[cur] = 0

\* C11: when the context of a registered call is cancelled before the
\* command produced any output, the start handler returns the "cancelled
\* before starting" result, with the error flag unset.
C11_CancelGivesCancelledResponse ==
    [][(pc = "st_select" /\ ctxDone[cur] /\ Silent(cur) /\ pc' = "respond") =>
          (result' = CancelledResult /\ branch' = "cancelled")]_vars

\* C11, what the code does keep: whenever the context of the call being
\* started is cancelled, its watcher has queued or delivered a first-output
\* value and has already removed the call's own registry entry
C11_CancelOnlyAfterDelivery ==
    (pc = "st_select" /\ ctxDone[cur]) =>
        /\ Len(outputChan[cur]) = 1
        /\ wpc[cur] = "done"
        /\ cur \notin Registered

\* the non-blank lines taken from standard input so far
NonBlank == nlines - nblank

\* C12: one response for every non-blank input line and none for a blank
\* one, in the order of the lines: while a line is being handled its response
\* is the only one outstanding, it is written before the next line is read, and
\* when the server has stopped every non-blank line has been answered.
C12_OneResponsePerLine ==
    /\ pc = "idle" => nresp = NonBlank
    /\ pc \notin {"idle", "exited"} => nresp + 1 = NonBlank
    /\ pc = "exited" => nresp = NonBlank

\* C12 for the lines scanner.Scan() delivers: the only line left unanswered is
\* the over-long line on which the server exits
C12_DeliveredLinesAnswered ==
    /\ pc = "idle" => nresp = NonBlank
    /\ pc \notin {"idle", "exited"} => nresp + 1 = NonBlank
    /\ server = "exit0" => nresp = NonBlank
    /\ server = "exit1" => nresp + 1 = NonBlank

\* the methods handleRequest knows
KnownMethods == {"initialize", "tools/list", "tools/call"}

\* the response about to be written has the error code c
ErrorIs(c) == Envelope.hasError /\ Envelope.error[1] = c

\* C13: an unparsable line is answered with the parse-error code and no id; a
\* request with an unknown method with method-not-found and the request's
\* id; every other response carries the id of its request; a response has
\* either a result or an error, never both.
C13_ErrorCodesAndEchoedId ==
    pc = "respond" =>
        /\ input = Unparsable => (ErrorIs(ParseErrorCode) /\ ~Envelope.hasId)
        /\ (input.parses /\ input.method \notin KnownMethods) =>
              (ErrorIs(MethodNotFoundCode) /\ Envelope.id = rawId)
        /\ input.parses => Envelope.id = rawId
        /\ Envelope.hasResult # Envelope.hasError

\* C13 for ids that json.Unmarshal decodes exactly
C13_ExactIdsEchoed ==
    (pc = "respond" /\ ParseId(rawId) = rawId) =>
        /\ input = Unparsable => (ErrorIs(ParseErrorCode) /\ ~Envelope.hasId)
        /\ (input.parses /\ input.method \notin KnownMethods) =>
              (ErrorIs(MethodNotFoundCode) /\ Envelope.id = rawId)
        /\ input.parses => Envelope.id = rawId
        /\ Envelope.hasResult # Envelope.hasError

\* the kind of protocol error a line is answered with ("none": a result)
ErrorKind(line) ==
    IF ~line.parses THEN "parse"
    ELSE IF line.method \notin KnownMethods THEN "method"
    ELSE IF line.method = "tools/list" THEN "none"
    ELSE IF line.params = "bad" THEN "params"
    ELSE IF line.method = "tools/call" /\ line.name \notin KnownTools THEN "tool"
    ELSE "none"

\* the error member a line is answered with
ErrorFor(line) ==
    IF ~line.parses THEN RPCError(ParseErrorCode, "Parse error") ELSE HandleRequestError(line)

ErrorLines == { line \in QuickLines \cup {Unparsable} : ErrorKind(line) # "none" }

\* C14 as stated: the four kinds of protocol error have pairwise different
\* codes: the code of an error response is the code of no other kind.
C14_FourDistinctCodes ==
    (pc = "respond" /\ Envelope.hasError) =>
        \A line \in ErrorLines :
            ErrorKind(line) # ErrorKind(input) => ErrorFor(line)[1] # Envelope.error[1]

\* C14 amended: three codes for four kinds: parse failure -32700, method not
\* found -32601, and -32602 for both invalid parameters and an unknown tool
\* name, which differ in their message only.
C14_ThreeCodesForFourKinds ==
    (pc = "respond" /\ Envelope.hasError) =>
        /\ ErrorKind(input) = "parse" => Envelope.error[1] = ParseErrorCode
        /\ ErrorKind(input) = "method" => Envelope.error[1] = MethodNotFoundCode
        /\ ErrorKind(input) = "params" => Envelope.error = RPCError(InvalidParamsCode, "Invalid params")
        /\ ErrorKind(input) = "tool" => Envelope.error = RPCError(InvalidParamsCode, "Unknown tool: ")
        /\ ErrorKind(input) \in {"parse", "method", "params", "tool"}
        /\ \A line \in ErrorLines :
              (ErrorKind(line) # ErrorKind(input) /\ {ErrorKind(line), ErrorKind(input)} # {"params", "tool"})
                  => ErrorFor(line)[1] # Envelope.error[1]

\* an unknown tool name is being answered with the invalid-parameters code
C14_UnknownToolAnswered ==
    /\ pc = "respond"
    /\ ErrorKind(input) = "tool"
    /\ Envelope.hasError
    /\ Envelope.error[1] = InvalidParamsCode

\* a tools/call whose params decode and name a known tool is being answered
KnownToolAnswered ==
    /\ pc = "respond"
    /\ input.parses
    /\ input.method = "tools/call"
    /\ input.params = "ok"
    /\ input.name \in KnownTools

\* C15: the response to a tools/call naming a known tool has a result and no
\* error member, whatever became of the command it ran (failed spawn, silent
\* or cancelled capture, stop that had to kill, failing script); the result
\* of extract_leaf_configs has its error flag set exactly when the script did
\* not exit with status zero.
C15_CommandFailureIsAResult ==
    KnownToolAnswered =>
        /\ Envelope.hasResult
        /\ ~Envelope.hasError
        /\ Envelope.error = NoError
        /\ input.name = req.tool
        /\ req.tool = "extract_leaf_configs" => (result.IsError <=> branch # "exit 0")
        /\ (req.tool = "start_traffic_capture" /\ cur = 0) => result.IsError

\* extract_leaf_configs whose script could not be run is answered with a
\* result that carries the error flag
C15_UnrunScriptFlagged ==
    /\ KnownToolAnswered
    /\ req.tool = "extract_leaf_configs"
    /\ branch = "not run"
    /\ result.IsError
    /\ Envelope.hasResult

\* C16 as stated: no failure of a request ends the dispatch loop or the
\* process: the server runs until its input ends.
C16_NoFailureEndsTheServer ==
    server \in {"running", "exit0"}

\* what holds of C16: a request that got a response, whatever failed in it,
\* is followed by the next read of the loop
C16_AnsweredFailuresKeepServing ==
    [][(pc = "respond" /\ pc' # pc) => (pc' = "idle" /\ server' = "running" /\ nresp' = nresp + 1)]_vars

\* the Active Calls the registry holds for an identifier's key
CallsFor(key) == { h \in Registered : reqKey[h] = key }

\* C17: the registry holds at most one Active Call per invocation
\* identifier: each entry sits under the key of its own request, and no two
\* entries belong to the same key, also after a second start has reused the
\* identifier of a capture that is still running.
C17_OneCallPerIdentifier ==
    /\ \A key \in DOMAIN activeCalls : reqKey[activeCalls[key]] = key
    /\ \A key \in Keys : Cardinality(CallsFor(key)) <= 1
    /\ Cardinality(Registered) = Cardinality(DOMAIN activeCalls)

\* two captures were started under one key, both commands are running, and
\* the registry holds the second only
C17_ReusedIdentifier ==
    /\ \E h1, h2 \in H :
          /\ h1 # h2
          /\ proc[h1] = "running" /\ proc[h2] = "running"
          /\ reqKey[h1] = reqKey[h2]
          /\ h1 \notin Registered
          /\ h2 \in Registered

\* the watcher of h has been launched and has not yet deleted its key
WatcherBeforeDelete(h) == wpc[h] \notin {"none", "cancel", "done"}

\* C18: the insertion into the registry comes after the spawn and before the
\* launch of the watcher and the handler's select: between spawn and
\* insertion the command is running with no watcher and no timer; the step
\* that inserts is the start handler's, for a spawned command without a
\* watcher; a watcher that runs and a handler that waits have their entry's
\* key; and when a stop takes its snapshot every spawned command has been
\* registered and has its watcher.
C18_RegisteredBeforeWatcherAndWait ==
    /\ [](pc \in {"st_lock", "st_insert"} =>
            /\ cur \in Spawned
            /\ wpc[cur] = "none"
            /\ reqKey[cur] = ""
            /\ cur \notin Registered
            /\ lineCount[cur] = 0
            /\ tmr # "armed")
    /\ [](\A h \in H : WatcherBeforeDelete(h) => reqKey[h] # "")
    /\ [](pc \in {"st_go", "st_select"} => (cur \in Spawned /\ (wpc[cur] \in {"none", "scan"} => reqKey[cur] # "")))
    /\ [][\A h \in H : (reqKey[h] = "" /\ reqKey'[h] # "") =>
              /\ pc = "st_insert" /\ pc' = "st_go"
              /\ h = cur
              /\ h \in Spawned
              /\ wpc[h] = "none" /\ wpc'[h] = "none"
              /\ h \in SnapshotSet(activeCalls')]_vars
    /\ [][(pc = "stop_snap" /\ pc' # pc) =>
              /\ \A h \in Spawned : wpc[h] # "none"
              /\ Range(snap'[nstop]) = Registered]_vars

\* a running command has been registered and its watcher is not launched yet
C18_RegisteredBeforeLaunch ==
    /\ pc = "st_go"
    /\ cur \in Registered
    /\ proc[cur] = "running"
    /\ wpc[cur] = "none"
    /\ tmr # "armed"

\* the watcher of h performs its deferred delete in this step
Deletes(h) == wpc[h] = "delete" /\ wpc'[h] = "cancel"

\* C19 as stated: an inserted Active Call is removed exactly once: the delete
\* of a watcher finds the entry of its own call still in the registry and
\* removes that entry and no other, and nothing else takes an entry out.
C19_RemovedExactlyOnce ==
    /\ [][\A h \in H : Deletes(h) =>
              /\ reqKey[h] \in DOMAIN activeCalls
              /\ activeCalls[reqKey[h]] = h
              /\ SnapshotSet(activeCalls') = Registered \ {h}]_vars
    /\ [][\A h \in Registered : h \notin SnapshotSet(activeCalls') => Deletes(h)]_vars

\* what holds of C19: entries leave the registry only in the delete of some
\* watcher or by replacement in an insert, and each watcher deletes once
C19_OnlyWatchersDelete ==
    [][SnapshotSet(activeCalls') # Registered =>
          \/ \E h \in H : Deletes(h)
          \/ pc = "st_insert" /\ pc' = "st_go"]_vars

\* C20 as stated: every spawned command is reaped exactly once: cmd.Wait()
\* is performed on a command handle by one task only, the watcher or the
\* waiter of a stop, never by both and never twice.
C20_WaitedByOneTask ==
    \A h \in H : Cardinality(waits[h]) <= 1

\* what holds of C20: a handle on which some cmd.Wait() returned has exited
\* and has been reaped, and its own watcher is the only watcher waiting on it
C20_WaitersOfExitedCommand ==
    \A h \in H :
        /\ waits[h] # {} => (reaped[h] /\ proc[h] = "exited")
        /\ \A g \in H : Watcher(g) \in waits[h] => g = h

\* the tasks that are between s.mu.Lock() and s.mu.Unlock()
InSection ==
    (IF pc \in {"st_insert", "stop_snap"} THEN {MainTask} ELSE {})
        \cup { Watcher(h) : h \in { g \in H : wpc[g] = "delete" } }

\* C21: every insert, removal and snapshot of the registry is done by the
\* task that holds the mutex, and at most one task is inside a locked
\* section at a time: the holder is that task, and the mutex is free when
\* nobody is inside.
C21_RegistryUnderMutex ==
    /\ [](Cardinality(InSection) <= 1)
    /\ [](\A t \in InSection : mu = t)
    /\ [](InSection = {} => mu = FreeMu)
    /\ [][activeCalls' # activeCalls =>
              /\ mu # FreeMu
              /\ mu \in InSection
              /\ mu' = FreeMu
              /\ \/ mu = MainTask /\ pc = "st_insert"
                 \/ \E h \in H : mu = Watcher(h) /\ Deletes(h)]_vars
    /\ [][(pc = "stop_snap" /\ pc' # pc) => (mu = MainTask /\ mu' = FreeMu)]_vars

\* a watcher is kept waiting for the mutex while a stop takes its snapshot
C21_WatcherWaitsForSnapshot ==
    /\ pc = "stop_snap"
    /\ mu = MainTask
    /\ \E h \in H : wpc[h] = "lock" /\ h \in Registered

\* the main goroutine is past the snapshot of a stop: signalling, waiting
\* for the waiter or the 15 s timer, or killing
StopPastSnapshot == pc \in {"stop_sig", "stop_go", "stop_select", "stop_kill"}

\* C22: the mutex is held across no blocking operation: the main goroutine
\* holds it only at the insert and at the snapshot copy, a watcher only at
\* its delete (not while scanning, sending, draining or waiting for the
\* exit), a waiter never; so while a stop signals, waits and kills, a watcher
\* that wants the mutex finds it free unless another watcher is deleting.
C22_NoLockAcrossBlocking ==
    /\ mu = MainTask => pc \in {"st_insert", "stop_snap"}
    /\ \A h \in H : mu = Watcher(h) => wpc[h] = "delete"
    /\ \A k \in K : mu # Waiter(k)
    /\ (pc \in {"idle", "respond", "st_spawn", "st_go", "st_select"} \/ StopPastSnapshot) => mu # MainTask
    /\ \A h \in H :
          (StopPastSnapshot /\ wpc[h] = "lock" /\ \A g \in H : wpc[g] # "delete") =>
              (mu = FreeMu /\ ENABLED WatcherLock(h))

\* while a stop waits for its waiter, the watcher of a command of the
\* snapshot is inside its delete
C22_WatcherDeletesDuringStopWait ==
    /\ pc = "stop_select"
    /\ tmr15 = "armed"
    /\ \E h \in Range(snap[nstop]) : wpc[h] = "delete" /\ mu = Watcher(h)

\* C23: under a stop a command goes Running, Signaled, then Terminated or
\* (TimedOut, ForceKilled), then Reaped: Kill() is called only in the kill
\* loop, which is entered only through the timeout case with the 15 s timer
\* fired, and only on handles of the snapshot on which Signal(SIGTERM) was
\* tried before; a SIGKILL is delivered only to a process that is running and
\* unreaped while the waiter is still waiting; a stop that returned through
\* the done case has killed nothing and all its handles are reaped; reaped
\* commands have exited.
C23_KillOnlyAfterSignalAndTimeout ==
    /\ [](pc = "stop_kill" =>
            /\ branch = "timeout"
            /\ Range(snap[nstop]) \subseteq sigTried
            /\ killTried \subseteq sigTried)
    /\ [](killTried # {} => branch = "timeout")
    /\ []((pc = "respond" /\ req.tool = "stop_traffic_capture" /\ branch = "done") =>
            (killTried = {} /\ \A h \in sigTried : reaped[h] /\ sig[h] # "kill"))
    /\ [](\A h \in H : reaped[h] => proc[h] = "exited")
    /\ [][(pc = "stop_select" /\ pc' = "stop_kill") => tmr15 = "fired"]_vars
    /\ [][\A h \in H : (h \in killTried' /\ h \notin killTried) =>
              (pc = "stop_kill" /\ h \in sigTried /\ h \in Range(snap[nstop]))]_vars
    /\ [][\A h \in H : (sig[h] # "kill" /\ sig'[h] = "kill") =>
              /\ pc = "stop_kill"
              /\ h \in sigTried
              /\ proc[h] = "running" /\ ~reaped[h]
              /\ wtpc[nstop] = "wait"]_vars

\* a command that got SIGTERM and is still running after the timeout has a
\* SIGKILL pending
C23_TimedOutThenKilled ==
    \E h \in killTried :
        /\ h \in sigOk
        /\ sig[h] = "kill"
        /\ proc[h] = "running"
        /\ branch = "timeout"

\* the start handler has returned through the ctx.Done() case
CancelledReturned ==
    /\ pc = "respond"
    /\ req.tool = "start_traffic_capture"
    /\ branch = "cancelled"

\* C24 as stated: when the start handler returns the cancelled response the
\* watcher has neither delivered a first-output value nor holds one ready in
\* outputChan: the call was stopped before any output appeared.
C24_CancelledBeforeAnyOutput ==
    CancelledReturned =>
        /\ Len(outputChan[cur]) = 0
        /\ wpc[cur] \in {"scan", "send"}

\* what holds instead: at every cancelled return the watcher has finished and
\* its value (the first line or the sentinel) lies unread in outputChan
C24_CancelledWithValueReady ==
    CancelledReturned =>
        /\ Len(outputChan[cur]) = 1
        /\ wpc[cur] = "done"
        /\ reaped[cur]

\* the cancellation token of h is fired in this step
Fires(h) == ~ctxDone[h] /\ ctxDone'[h]

\* C25: firing a cancellation token terminates no process: a token is fired
\* only for a command that was never started or has exited and been waited
\* on, and the step that fires it leaves every process, every pending signal
\* and the registry as they were; a SIGKILL becomes pending only in the kill
\* loop of a stop, and a running command's token is not fired.
C25_TokenTerminatesNothing ==
    /\ [][\A h \in H : Fires(h) =>
              /\ proc[h] # "running"
              /\ proc[h] = "exited" => reaped[h]
              /\ proc' = proc
              /\ sig' = sig
              /\ reaped' = reaped
              /\ activeCalls' = activeCalls]_vars
    /\ [][sig' # sig => (pc = "stop_kill" \/ \E h \in H : proc[h] = "running" /\ proc'[h] = "exited")]_vars
    /\ [](\A h \in H : proc[h] = "running" => ~ctxDone[h])

\* the token of a command that has exited and been reaped was fired by its
\* watcher while another command keeps running
C25_FiredAfterCompletion ==
    \E h, g \in H :
        /\ ctxDone[h] /\ wpc[h] = "done"
        /\ proc[h] = "exited" /\ reaped[h]
        /\ proc[g] = "running" /\ sig[g] = "none"

\* the watcher of h has reaped, deleted its key and fired the token
WatcherFinished(h) ==
    /\ wpc[h] = "done"
    /\ reaped[h]
    /\ h \notin Registered
    /\ ctxDone[h]

\* C26: whenever a supervised process exits, with or without a stop, its
\* watcher eventually has reaped it, taken the call's key out of the
\* registry and fired the token, in this order: the delete comes after the
\* Wait and before the token, and the token is fired with the call out of
\* the registry.
C26_ExitLeadsToReapRemoveRelease ==
    /\ \A h \in H : (proc[h] = "exited") ~> WatcherFinished(h)
    /\ [](\A h \in H : wpc[h] \in {"lock", "delete"} => (reaped[h] /\ ~ctxDone[h]))
    /\ [](\A h \in H : wpc[h] = "cancel" => (reaped[h] /\ h \notin Registered /\ ~ctxDone[h]))
    /\ [](\A h \in H : wpc[h] = "done" => WatcherFinished(h))
    /\ [][\A h \in Spawned : Deletes(h) => (reaped[h] /\ ~ctxDone[h] /\ ~ctxDone'[h])]_vars
    /\ [][\A h \in Spawned : Fires(h) => (wpc[h] = "cancel" /\ reaped[h] /\ h \notin Registered)]_vars

\* a command that exited by itself, with no stop ever requested, has been
\* reaped, unregistered and released by its watcher
C26_ReleasedWithoutStop ==
    /\ nstop = 0
    /\ \E h \in H : proc[h] = "exited" /\ WatcherFinished(h) /\ sig[h] = "none"

\* the watcher goroutine of h is running
WatcherAlive(h) == wpc[h] \notin {"none", "done"}

\* C27 as stated: for the whole life of the process the watcher consumes its
\* combined output, standard output and standard error alike, so while the
\* watcher is alive the process is never left blocked in a write to a full
\* pipe.
C27_NeverBlockedWhileWatcherAlive ==
    \A h \in H : WatcherAlive(h) => proc[h] # "blocked"

\* what holds of C27: the watcher stays in its read loops until the process
\* is gone (it leaves them at end of file only), and a blocked process is
\* not resumed: it stays blocked until a signal ends it
C27_ReadsUntilExitBlockedUntilSignal ==
    /\ [](\A h \in H : (WatcherAlive(h) /\ Alive(h)) => wpc[h] \in {"scan", "send", "drain"})
    /\ [][\A h \in H : (proc[h] = "blocked" /\ proc'[h] # "blocked") =>
              (proc'[h] = "exited" /\ (sig[h] = "kill" \/ h \in sigOk))]_vars

\* the first loop of watcher h has what the claim lets it wait for: the cap
\* of lines, or the 5 s deadline of its start
CapOrDeadlineReached(h) ==
    \/ lineCount[h] = maxLines
    \/ h = cur /\ pc = "st_select" /\ tmr = "fired"

\* C28 as stated: the watcher delivers one value per call, the first line or
\* the sentinel, once it has read the cap of 20 lines or once the deadline is
\* reached: from then on it can go on to its send by itself, needing nothing
\* further from the command.
C28_DeliversAtCapOrDeadline ==
    \A h \in H :
        (wpc[h] = "scan" /\ CapOrDeadlineReached(h)) => ENABLED WatcherStep(h)

\* what holds of C28: a watcher sends once, the first line if it read one
\* and the sentinel otherwise, and it leaves its first loop only when a 21st
\* line arrives or at end of file
C28_OneValueAfter21stLineOrEof ==
    /\ [][\A h \in H : (wpc[h] = "send" /\ wpc'[h] # "send") =>
              /\ wpc'[h] = "drain"
              /\ h = cur => outputChan'[h] = <<FirstOutput(h)>>
              /\ FirstOutput(h) = (IF lineCount[h] > 0 THEN FirstLine(h) ELSE SentinelText)]_vars
    /\ [][\A h \in H : (wpc[h] # "send" /\ wpc'[h] = "send") =>
              /\ wpc[h] = "scan"
              /\ proc[h] = "exited" \/ (nwrites'[h] = nwrites[h] + 1 /\ lineCount'[h] = maxLines)]_vars
    /\ [][\A h \in H : Len(outputChan'[h]) > Len(outputChan[h]) => wpc[h] = "send"]_vars

\* a watcher has read exactly the cap of lines and stays in its first loop
\* while the command runs on in silence
C28_CapReadStillScanning ==
    \E h \in H : wpc[h] = "scan" /\ lineCount[h] = maxLines /\ proc[h] = "running"

\* C29: stop_traffic_capture neither inserts into nor removes from the
\* registry: no step of the stop handler changes it; while a stop is being
\* handled the registry changes only by the delete of a watcher, which takes
\* one key out; so from the snapshot to the return the registry only loses
\* entries of the snapshot.
C29_StopLeavesRegistryToWatchers ==
    /\ [][(InStopHandler /\ pc' # pc) => activeCalls' = activeCalls]_vars
    /\ [][(InStopHandler /\ si' # si) => activeCalls' = activeCalls]_vars
    /\ [][(InStopHandler /\ activeCalls' # activeCalls) =>
              \E h \in H :
                  /\ Deletes(h)
                  /\ activeCalls' = Delete(activeCalls, reqKey[h])
                  /\ pc' = pc]_vars
    /\ [](StopPastSnapshot => Registered \subseteq Range(snap[nstop]))
    /\ [](StopReturned => Registered \subseteq Range(snap[nstop]))

\* a stop that found two captures returns with one of them removed by its
\* watcher and the other still in the registry
C29_OneRemovedOneLeftAtReturn ==
    /\ StopFoundReturned
    /\ Registered # {}
    /\ Registered # Range(snap[nstop])
    /\ Registered \subseteq Range(snap[nstop])

\* C30 as stated: the delete of a watcher removes only the Active Call of
\* its own start: the entry of another command that is still running stays
\* in the registry, also when both starts had the same key.
C30_WatcherRemovesOwnCallOnly ==
    [][\A h \in H : Deletes(h) =>
          \A g \in Registered \ {h} : proc[g] = "running" => g \in SnapshotSet(activeCalls')]_vars

\* what holds of C30: a watcher whose key no other started call shares
\* removes its own call and nothing else
C30_OwnCallOnlyUnderUnsharedKey ==
    [][\A h \in H : (Deletes(h) /\ \A g \in Spawned \ {h} : reqKey[g] # reqKey[h]) =>
          SnapshotSet(activeCalls') = Registered \ {h}]_vars

\* the start handler of h is past its insert (or has returned)
PastInsert(h) == ~(h = cur /\ pc \in {"st_lock", "st_insert"})

\* C31 as stated: no orphaned capture: every spawned command whose process
\* is still running has its own Active Call in the registry once its start
\* has registered it, and an insert replaces the entry of no running command.
C31_NoOrphanedCapture ==
    /\ [](\A h \in Spawned : (proc[h] = "running" /\ PastInsert(h)) => h \in Registered)
    /\ [][(pc = "st_insert" /\ pc' = "st_go") =>
              \A g \in Registered : proc[g] = "running" => g \in SnapshotSet(activeCalls')]_vars

\* what holds of C31: a running command loses its entry only through a key
\* it shares: to the insert of a start under the same key, or to the delete
\* of the watcher of a call under the same key
C31_OrphanedOnlyThroughSharedKey ==
    [][\A h \in Registered : (proc[h] = "running" /\ h \notin SnapshotSet(activeCalls')) =>
          \/ pc = "st_insert" /\ FmtV(req.id) = reqKey[h] /\ cur # h
          \/ \E g \in H \ {h} : Deletes(g) /\ reqKey[g] = reqKey[h]]_vars

\* C32: no background task stays blocked in a channel send: a watcher at
\* its send on outputChan and a waiter at its send on done can always
\* complete it, the buffer slot being free, also after the start handler
\* returned through the deadline or cancellation case and after the stop
\* returned through its timeout case; so every send is eventually done.
C32_SendsNeverBlock ==
    /\ [](\A h \in H : wpc[h] = "send" => (Len(outputChan[h]) = 0 /\ ENABLED WatcherSend(h)))
    /\ [](\A k \in K : wtpc[k] = "send" => (Len(done[k]) = 0 /\ ENABLED WaiterSend(k)))
    /\ \A h \in H : (wpc[h] = "send") ~> (wpc[h] = "drain")
    /\ \A k \in K : (wtpc[k] = "send") ~> (wtpc[k] = "done")

\* the start handler returned through the deadline case and the watcher's
\* value, sent all the same, lies in outputChan with nobody to receive it
C32_SentAfterHandlerGaveUp ==
    /\ pc = "respond"
    /\ req.tool = "start_traffic_capture"
    /\ branch = "deadline"
    /\ wpc[cur] \notin {"none", "scan", "send"}
    /\ Len(outputChan[cur]) = 1

\* the token of h is fired by the error return of its start
FiredByFailedStart(h) ==
    /\ pc = "st_spawn" /\ pc' = "respond"
    /\ proc[h] = "unstarted" /\ proc'[h] = "unstarted"
    /\ result'.IsError
    /\ reqKey'[h] = ""
    /\ h \notin SnapshotSet(activeCalls')

\* the token of h is fired by the last statement of its own watcher's defer
FiredByOwnWatcher(h) ==
    /\ wpc[h] = "cancel" /\ wpc'[h] = "done"
    /\ proc[h] = "exited"
    /\ Watcher(h) \in waits[h]
    /\ reqKey[h] = ""
    /\ h \notin Registered
    /\ pc' = pc

\* C33: a token is fired in two situations only: by a start that failed,
\* with nothing registered, or by the call's own watcher after its Wait and
\* its delete.  No return of a start handler that spawned its command and no
\* step of a stop fires a token, so a capture whose start has been answered
\* keeps running with its token unfired.
C33_TokenFiredOnlyByFailedStartOrWatcher ==
    /\ [][\A h \in H : Fires(h) => (FiredByFailedStart(h) \/ FiredByOwnWatcher(h))]_vars
    /\ [][(pc = "st_select" \/ InStopHandler) => (pc' = pc \/ ctxDone' = ctxDone)]_vars
    /\ [][(InStopHandler /\ si' # si) => ctxDone' = ctxDone]_vars
    /\ [](\A h \in H : (ctxDone[h] /\ h \in Spawned) => wpc[h] = "done")
    /\ [](\A h \in H : (ctxDone[h] /\ h \notin Spawned) => (h <= nspawn /\ wpc[h] = "none"))

\* a capture keeps running, registered and with its token unfired, after its
\* start was answered, beside a failed start whose token was fired
C33_CaptureRunsBesideFailedStart ==
    /\ pc = "idle"
    /\ \E h, g \in H :
          /\ ctxDone[h] /\ proc[h] = "unstarted"
          /\ proc[g] = "running" /\ g \in Registered /\ ~ctxDone[g]
          /\ wpc[g] \in {"scan", "drain"}

====
